---- MODULE Spec2Model ----
(***************************************************************************)
(* Model of the actix-ratelimit middleware (src/src/lib.rs).               *)
(*                                                                         *)
(* RateLimitMiddleware::call is an async block: every `.await` on          *)
(* `store.send(..)` is a suspension point at which other decisions, the    *)
(* store actor and the clock may run.  The store actor (module `stores`)   *)
(* serialises the Messages of its mailbox.  Time is counted in ticks of    *)
(* 1/TicksPerSec second so that Duration::as_secs truncates.               *)
(***************************************************************************)
EXTENDS Integers, Sequences, FiniteSets, TLC

\* ---------------------------------------------------------------- bounds
MaxEvents == 3       \* number of events from outside: calls issued,
                     \* Messages::Remove sent by another party, and failures
                     \* (of a send, of a store result, of the service)
MailboxCap == 1      \* capacity of the store actor's mailbox
TicksPerSec == 2     \* clock resolution: ticks per second
StartTime == 1       \* SystemTime::now() since UNIX_EPOCH at start (ticks)
MaxTime == 3         \* last clock value (ticks)
MaxMaxRequests == 2  \* largest configured max_requests
MaxInterval == 3     \* largest configured interval (ticks)

Keys == {"A", "B"}
NoPeer == "?"        \* no identifier: the request has no peer address
Reqs == 1..MaxEvents
Env == 0             \* sender id of a message that no call sent

\* ---------------------------------------------------------------- values
None == -1           \* Option::None for usize / Duration options
NoEntry == [remaining |-> None, expiry |-> None]
NoHdr == [limit |-> None, remaining |-> None, reset |-> None]
NoReply == [res |-> "none", val |-> None]

VARIABLES
  max_requests,  \* RateLimiter.max_requests
  interval,      \* RateLimiter.interval, a Duration (ticks)
  now,           \* SystemTime::now() since UNIX_EPOCH (ticks)
  store,         \* the store's entries: key -> CounterEntry or NoEntry
  mailbox,       \* the store actor's mailbox: sequence of Messages
  removes,       \* number of Remove messages sent so far
  faults,        \* number of failures so far
  pc,            \* position of each call's async block
  key,           \* identifier of each call
  c,             \* the `c` of `Some(c)` (line 195), None if the Get gave None
  reset,         \* the `reset` Duration of line 200 (ticks)
  reply,         \* the Responses a call is about to receive
  outcome,       \* how each call ended
  hdr,           \* the three x-ratelimit headers of the produced response
  fwd,           \* number of srv.call(req) made by each call
  sets,          \* number of Messages::Set sent by each call
  failed,        \* a store operation of the call failed (send or result)
  snap,          \* Query of the call's key when the call started
  snapStale,     \* the key had an entry past its expiry when the call started
  overlap,       \* calls of the same key in flight during the call
  tcreate,       \* the `now` read at line 247
  wrote,         \* entry of the call's key right after its Set was handled
  consumed,      \* what the store's TryConsume made of the call's decrement
  wid,           \* per key: number of entries created so far (window id)
  wstart,        \* wid of the call's key when the call started
  wend,          \* wid of the call's key when the call ended
  liveEnd        \* whether the key's entry was live when the call ended

vars == <<max_requests, interval, now, store, mailbox, removes, faults, pc, key, c,
          reset, reply, outcome, hdr, fwd, sets, failed, snap, snapStale,
          overlap, tcreate, wrote, consumed, wid, wstart, wend, liveEnd>>

\* ------------------------------------------------------- pure functions
\* Duration::as_secs: whole seconds of a Duration
as_secs(d) == d \div TicksPerSec
\* Duration::from_secs
from_secs(s) == s * TicksPerSec

\* The middleware's interval: RateLimiter.interval.as_secs() (line 146),
\* turned back into a Duration at line 187.
MwInterval == from_secs(as_secs(interval))

\* ------------------------------------------------------------- messages
Msg(t, k, r, v, ch, e) ==
  [type |-> t, key |-> k, from |-> r, value |-> v, change |-> ch, expiry |-> e]

\* Messages::Get(identifier), line 191
GetMsg(r, k) == Msg("Get", k, r, None, 0, None)
\* Messages::Expire(identifier), lines 197-198
ExpireMsg(r) == Msg("Expire", key[r], r, None, 0, None)
\* mutant of ConsumeMsg: the decrement is sent for a fixed key
ConsumeMsg_WrongKey(r) == Msg("Set", "A", r, c[r], 1, None)
\* mutant of ConsumeMsg: the decrement asks for no change
ConsumeMsg_NoChange(r) == Msg("Set", key[r], r, c[r], 0, None)
\* Messages::Set { key, value: c, change: 1, expiry: None }, lines 218-224
ConsumeMsg(r) == Msg("Set", key[r], r, c[r], 1, None)
\* mutant of CreateMsg: the new entry is charged for its first request
CreateMsg_Charged(r) == Msg("Set", key[r], r, max_requests, 1, now + MwInterval)
\* mutant of CreateMsg: the new entry's expiry leaves out the interval
CreateMsg_NoWindow(r) == Msg("Set", key[r], r, max_requests, 0, now)
\* mutant of CreateMsg: the new entry starts above the quota
CreateMsg_OffByOne(r) ==
  Msg("Set", key[r], r, max_requests + 1, 0, now + MwInterval)
\* Messages::Set { key, value: max_requests, change: 0,
\*                 expiry: Some(now + interval) }, lines 247-254
CreateMsg(r) == Msg("Set", key[r], r, max_requests, 0, now + MwInterval)
\* Messages::Remove(key), sent by a party other than the middleware
RemoveMsg(k) == Msg("Remove", k, Env, None, 0, None)

\* ------------------------------------------------------------- headers
\* mutant of Exhausted: the check of line 207 is missing
Exhausted_Never(r) == FALSE
\* `if c == 0`, line 207
Exhausted(r) == c[r] = 0
\* the 429 response's headers, lines 209-213
RejectHeaders(r, rst) ==
  [limit |-> max_requests, remaining |-> c[r], reset |-> as_secs(rst)]
\* mutant of AdmitHeaders: remaining is reported one too high
AdmitHeaders_PlusOne(r) ==
  [limit |-> max_requests, remaining |-> c[r] + 1, reset |-> as_secs(reset[r])]
\* the forwarded response's headers on the existing-entry path, lines 228-242
AdmitHeaders(r) ==
  [limit |-> max_requests, remaining |-> c[r], reset |-> as_secs(reset[r])]
\* mutant of NewHeaders: the reset is the Duration, not its whole seconds
NewHeaders_RawReset(r) ==
  [limit |-> max_requests, remaining |-> max_requests, reset |-> MwInterval]
\* the forwarded response's headers on the new-key path, lines 259-272
NewHeaders(r) ==
  [limit |-> max_requests, remaining |-> max_requests,
   reset |-> as_secs(MwInterval)]
\* the reset used when the Expire reply is not Responses::Expire, lines 202-205
FallbackReset == now + MwInterval

\* ---------------------------------------------------------------- store
\* The store actor (module `stores`): one entry per key, expiring lazily.
Live(k) == store[k] # NoEntry /\ now < store[k].expiry
\* Query(key)
Query(k) == IF Live(k) THEN store[k].remaining ELSE None
\* TimeToLive(key), with the fallback of window_duration for an absent key
TimeToLive(k) == IF Live(k) THEN store[k].expiry - now ELSE MwInterval
\* Create(key, initial_remaining, expiry)
Create(m) == [remaining |-> IF m.value > m.change THEN m.value - m.change ELSE 0,
              expiry |-> m.expiry]
\* TryConsume(key): check and decrement in one step
TryConsume(m) ==
  IF Live(m.key) /\ store[m.key].remaining > 0
    THEN [store[m.key] EXCEPT
            !.remaining = IF @ > m.change THEN @ - m.change ELSE 0]
    ELSE store[m.key]
\* TryConsume(key)'s result: Admitted, Exhausted or NotFound
ConsumeResult(m) ==
  IF ~Live(m.key) THEN "NotFound"
  ELSE IF store[m.key].remaining > 0 THEN "Admitted" ELSE "Exhausted"
\* the entry of m.key after the store has handled Messages::Set m
StoreSet(m) == IF m.expiry # None THEN Create(m) ELSE TryConsume(m)

\* ----------------------------------------------------------------- Init
\* The middleware as built by new_transform from a configured RateLimiter
\* (RateLimiter::new leaves interval and max_requests at 0), an empty store,
\* no call started.
Init ==
  /\ max_requests \in 0..MaxMaxRequests
  /\ interval \in {0, MaxInterval}
  /\ now = StartTime
  /\ store = [k \in Keys |-> NoEntry]
  /\ mailbox = <<>>
  /\ removes = 0
  /\ faults = 0
  /\ pc = [r \in Reqs |-> "idle"]
  /\ key = [r \in Reqs |-> "A"]
  /\ c = [r \in Reqs |-> None]
  /\ reset = [r \in Reqs |-> None]
  /\ reply = [r \in Reqs |-> NoReply]
  /\ outcome = [r \in Reqs |-> "none"]
  /\ hdr = [r \in Reqs |-> NoHdr]
  /\ fwd = [r \in Reqs |-> 0]
  /\ sets = [r \in Reqs |-> 0]
  /\ failed = [r \in Reqs |-> FALSE]
  /\ snap = [r \in Reqs |-> None]
  /\ snapStale = [r \in Reqs |-> FALSE]
  /\ overlap = [r \in Reqs |-> {}]
  /\ tcreate = [r \in Reqs |-> None]
  /\ wrote = [r \in Reqs |-> NoEntry]
  /\ consumed = [r \in Reqs |-> "none"]
  /\ wid = [k \in Keys |-> 0]
  /\ wstart = [r \in Reqs |-> 0]
  /\ wend = [r \in Reqs |-> 0]
  /\ liveEnd = [r \in Reqs |-> FALSE]

\* ------------------------------------------------------------- the call
InFlight(r) == pc[r] \notin {"idle", "done"}

\* The call's future resolves: Ok(res) with headers h, Err(429 response)
\* with headers h, or Err(e) without headers.
Finish(r, k, out, h) ==
  /\ pc' = [pc EXCEPT ![r] = "done"]
  /\ outcome' = [outcome EXCEPT ![r] = out]
  /\ hdr' = [hdr EXCEPT ![r] = h]
  /\ wend' = [wend EXCEPT ![r] = wid[k]]
  /\ liveEnd' = [liveEnd EXCEPT ![r] = Live(k)]

\* the events from outside so far
Used == Cardinality({r \in Reqs : pc[r] # "idle"}) + removes + faults

\* a failure happens only while the bound on events allows one
Fault(b) ==
  /\ b => Used < MaxEvents
  /\ faults' = IF b THEN faults + 1 ELSE faults

\* store.send(m): the message reaches the mailbox once it has room
Send(m) ==
  /\ Len(mailbox) < MailboxCap
  /\ mailbox' = Append(mailbox, m)

\* call(req), lines 183-191: the identifier is computed and Messages::Get
\* is sent; `sent` is FALSE when the send ends in a MailboxError.
Call(r, k, sent) ==
  /\ pc[r] = "idle"
  /\ \A q \in Reqs : q < r => pc[q] # "idle"
  /\ Used + (IF sent THEN 1 ELSE 2) <= MaxEvents
  /\ faults' = IF sent THEN faults ELSE faults + 1
  /\ key' = [key EXCEPT ![r] = k]
  /\ snap' = [snap EXCEPT ![r] = Query(k)]
  /\ snapStale' = [snapStale EXCEPT ![r] = store[k] # NoEntry /\ ~Live(k)]
  /\ wstart' = [wstart EXCEPT ![r] = wid[k]]
  /\ overlap' = [q \in Reqs |->
       IF q = r THEN {p \in Reqs : InFlight(p) /\ key[p] = k}
       ELSE IF InFlight(q) /\ key[q] = k THEN overlap[q] \cup {r}
       ELSE overlap[q]]
  /\ IF sent
       THEN /\ Send(GetMsg(r, k))
            /\ pc' = [pc EXCEPT ![r] = "get"]
            /\ UNCHANGED <<outcome, hdr, wend, liveEnd, failed>>
       ELSE /\ Finish(r, k, "error", NoHdr)
            /\ failed' = [failed EXCEPT ![r] = TRUE]
            /\ UNCHANGED mailbox
  /\ UNCHANGED <<max_requests, interval, now, store, removes, c, reset, reply,
                 fwd, sets, tcreate, wrote, consumed, wid>>

\* call(req) for a request without peer address, line 190: the identifier
\* closure (lines 101-104) unwraps req.peer_addr(), which panics; nothing
\* is sent and the future yields neither Ok nor Err.
CallNoPeer(r) ==
  /\ pc[r] = "idle"
  /\ \A q \in Reqs : q < r => pc[q] # "idle"
  /\ Used < MaxEvents
  /\ key' = [key EXCEPT ![r] = NoPeer]
  /\ pc' = [pc EXCEPT ![r] = "done"]
  /\ outcome' = [outcome EXCEPT ![r] = "panic"]
  /\ UNCHANGED <<max_requests, interval, now, store, mailbox, removes, faults,
                 c, reset, reply, hdr, fwd, sets, failed, snap, snapStale,
                 overlap, tcreate, wrote, consumed, wid, wstart, wend, liveEnd>>

\* lines 192-199 and 245-255: the Get's reply arrives.  An error ends the
\* call (`?`); another variant than Responses::Get is unreachable!();
\* Some(c) sends Messages::Expire; None reads the clock and sends the Set
\* that creates the entry.
GotRemaining(r, sent) ==
  /\ pc[r] = "get"
  /\ reply[r].res # "none"
  /\ reply' = [reply EXCEPT ![r] = NoReply]
  /\ CASE reply[r].res = "err" ->
            /\ sent
            /\ Finish(r, key[r], "error", NoHdr)
            /\ UNCHANGED <<mailbox, c, tcreate, sets, failed, faults>>
       [] reply[r].res = "other" ->
            /\ sent
            /\ Finish(r, key[r], "panic", NoHdr)
            /\ UNCHANGED <<mailbox, c, tcreate, sets, failed, faults>>
       [] reply[r].res = "ok" /\ reply[r].val # None ->
            /\ Fault(~sent)
            /\ c' = [c EXCEPT ![r] = reply[r].val]
            /\ UNCHANGED <<tcreate, sets>>
            /\ IF sent
                 THEN /\ Send(ExpireMsg(r))
                      /\ pc' = [pc EXCEPT ![r] = "expire"]
                      /\ UNCHANGED <<outcome, hdr, wend, liveEnd, failed>>
                 ELSE /\ Finish(r, key[r], "error", NoHdr)
                      /\ failed' = [failed EXCEPT ![r] = TRUE]
                      /\ UNCHANGED mailbox
       [] reply[r].res = "ok" /\ reply[r].val = None ->
            /\ Fault(~sent)
            /\ tcreate' = [tcreate EXCEPT ![r] = now]
            /\ UNCHANGED c
            /\ IF sent
                 THEN /\ Send(CreateMsg(r))
                      /\ sets' = [sets EXCEPT ![r] = @ + 1]
                      /\ pc' = [pc EXCEPT ![r] = "create"]
                      /\ UNCHANGED <<outcome, hdr, wend, liveEnd, failed>>
                 ELSE /\ Finish(r, key[r], "error", NoHdr)
                      /\ failed' = [failed EXCEPT ![r] = TRUE]
                      /\ UNCHANGED <<mailbox, sets>>
  /\ UNCHANGED <<max_requests, interval, now, store, removes, key, reset, fwd,
                 snap, snapStale, overlap, wrote, consumed, wid, wstart>>

\* lines 200-225: the Expire's reply arrives.  An error ends the call; the
\* reset is the reply's Duration or the fallback; an exhausted entry is
\* answered with 429, otherwise the Set that decrements is sent.
GotExpiry(r, sent) ==
  /\ pc[r] = "expire"
  /\ reply[r].res # "none"
  /\ reply' = [reply EXCEPT ![r] = NoReply]
  /\ IF reply[r].res = "err"
       THEN /\ sent
            /\ Finish(r, key[r], "error", NoHdr)
            /\ UNCHANGED <<mailbox, reset, sets, failed, faults>>
       ELSE LET rst == IF reply[r].res = "ok" THEN reply[r].val
                       ELSE FallbackReset
            IN /\ reset' = [reset EXCEPT ![r] = rst]
               /\ IF Exhausted(r)
                    THEN /\ sent
                         /\ Finish(r, key[r], "rejected", RejectHeaders(r, rst))
                         /\ UNCHANGED <<mailbox, sets, failed, faults>>
                    ELSE /\ Fault(~sent)
                         /\ IF sent
                              THEN /\ Send(ConsumeMsg(r))
                                   /\ sets' = [sets EXCEPT ![r] = @ + 1]
                                   /\ pc' = [pc EXCEPT ![r] = "consume"]
                                   /\ UNCHANGED <<outcome, hdr, wend, liveEnd,
                                                  failed>>
                              ELSE /\ Finish(r, key[r], "error", NoHdr)
                                   /\ failed' = [failed EXCEPT ![r] = TRUE]
                                   /\ UNCHANGED <<mailbox, sets>>
  /\ UNCHANGED <<max_requests, interval, now, store, removes, key, c, fwd,
                 snap, snapStale, overlap, tcreate, wrote, consumed, wid, wstart>>

\* a variant that passes the request on without awaiting the send of the Set
Forward_Early(r) ==
  /\ pc[r] \in {"consume", "create"}
  /\ reply' = [reply EXCEPT ![r] = NoReply]
  /\ fwd' = [fwd EXCEPT ![r] = @ + 1]
  /\ pc' = [pc EXCEPT ![r] = IF pc[r] = "consume" THEN "srv" ELSE "srv_new"]
  /\ UNCHANGED <<max_requests, interval, now, store, mailbox, removes, faults,
                 key, c,
                 reset, outcome, hdr, sets, failed, snap, snapStale, overlap,
                 tcreate, wrote, consumed, wid, wstart, wend, liveEnd>>

\* lines 225-226 and 255-257: the send of the Set has resolved to a
\* Responses value, which is dropped without being awaited; the request is
\* passed to the downstream service.
Forward(r) ==
  /\ pc[r] \in {"consume", "create"}
  /\ reply[r].res # "none"
  /\ reply' = [reply EXCEPT ![r] = NoReply]
  /\ fwd' = [fwd EXCEPT ![r] = @ + 1]
  /\ pc' = [pc EXCEPT ![r] = IF pc[r] = "consume" THEN "srv" ELSE "srv_new"]
  /\ UNCHANGED <<max_requests, interval, now, store, mailbox, removes, faults,
                 key, c,
                 reset, outcome, hdr, sets, failed, snap, snapStale, overlap,
                 tcreate, wrote, consumed, wid, wstart, wend, liveEnd>>

\* lines 227-243 and 258-273: the downstream future resolves; its error
\* ends the call (`?`), its response gets the three headers.
ServiceDone(r, ok) ==
  /\ pc[r] \in {"srv", "srv_new"}
  /\ Fault(~ok)
  /\ IF ok
       THEN Finish(r, key[r], "admitted",
                   IF pc[r] = "srv" THEN AdmitHeaders(r) ELSE NewHeaders(r))
       ELSE Finish(r, key[r], "srv_error", NoHdr)
  /\ UNCHANGED <<max_requests, interval, now, store, mailbox, removes, key, c,
                 reset, reply, fwd, sets, failed, snap, snapStale, overlap,
                 tcreate, wrote, consumed, wid, wstart>>

\* ------------------------------------------------------ the store actor
\* The actor takes the first message of its mailbox and answers it.  `res`
\* is the answer's kind: "ok" (the operation's result), "err" (the result
\* future yields an ARError) or "other" (a Responses of another variant).
Answer(m, res, v) ==
  /\ reply' = [reply EXCEPT ![m.from] = [res |-> res, val |-> v]]
  /\ failed' = [failed EXCEPT ![m.from] = @ \/ res = "err"]

HandleGet(res) ==
  /\ mailbox # <<>>
  /\ Head(mailbox).type = "Get"
  /\ Fault(res # "ok")
  /\ LET m == Head(mailbox)
     IN Answer(m, res, IF res = "ok" THEN Query(m.key) ELSE None)
  /\ mailbox' = Tail(mailbox)
  /\ UNCHANGED <<max_requests, interval, now, store, removes, pc, key, c,
                 reset, outcome, hdr, fwd, sets, snap, snapStale, overlap,
                 tcreate, wrote, consumed, wid, wstart, wend, liveEnd>>

HandleExpire(res) ==
  /\ mailbox # <<>>
  /\ Head(mailbox).type = "Expire"
  /\ Fault(res # "ok")
  /\ LET m == Head(mailbox)
     IN Answer(m, res, IF res = "ok" THEN TimeToLive(m.key) ELSE None)
  /\ mailbox' = Tail(mailbox)
  /\ UNCHANGED <<max_requests, interval, now, store, removes, pc, key, c,
                 reset, outcome, hdr, fwd, sets, snap, snapStale, overlap,
                 tcreate, wrote, consumed, wid, wstart, wend, liveEnd>>

\* Messages::Set: a create when expiry is Some, a consume when it is None;
\* a failed operation leaves the entry as it was.
HandleSet(res) ==
  /\ mailbox # <<>>
  /\ Head(mailbox).type = "Set"
  /\ Fault(res # "ok")
  /\ LET m == Head(mailbox)
         e == IF res = "ok" THEN StoreSet(m) ELSE store[m.key]
     IN /\ store' = [store EXCEPT ![m.key] = e]
        /\ wid' = [wid EXCEPT ![m.key] =
                     IF res = "ok" /\ m.expiry # None THEN @ + 1 ELSE @]
        /\ wrote' = [wrote EXCEPT ![m.from] = e]
        /\ consumed' = [consumed EXCEPT ![m.from] =
                          IF res = "ok" /\ m.expiry = None
                            THEN ConsumeResult(m) ELSE @]
        /\ Answer(m, res, None)
  /\ mailbox' = Tail(mailbox)
  /\ UNCHANGED <<max_requests, interval, now, removes, pc, key, c, reset,
                 outcome, hdr, fwd, sets, snap, snapStale, overlap, tcreate,
                 wstart, wend, liveEnd>>

\* Messages::Remove(key): the entry is destroyed
HandleRemove ==
  /\ mailbox # <<>>
  /\ Head(mailbox).type = "Remove"
  /\ store' = [store EXCEPT ![Head(mailbox).key] = NoEntry]
  /\ mailbox' = Tail(mailbox)
  /\ UNCHANGED <<max_requests, interval, now, removes, faults, pc, key, c, reset,
                 reply, outcome, hdr, fwd, sets, failed, snap, snapStale,
                 overlap, tcreate, wrote, consumed, wid, wstart, wend, liveEnd>>

\* ------------------------------------------------------ the environment
\* a party holding the store's address sends Messages::Remove(key)
SendRemove(k) ==
  /\ Used < MaxEvents
  /\ removes' = removes + 1
  /\ Send(RemoveMsg(k))
  /\ UNCHANGED <<max_requests, interval, now, store, faults, pc, key, c, reset, reply,
                 outcome, hdr, fwd, sets, failed, snap, snapStale, overlap,
                 tcreate, wrote, consumed, wid, wstart, wend, liveEnd>>

\* the clock advances by one tick
Tick ==
  /\ now < MaxTime
  /\ now' = now + 1
  /\ UNCHANGED <<max_requests, interval, store, mailbox, removes, faults, pc, key, c,
                 reset, reply, outcome, hdr, fwd, sets, failed, snap, snapStale,
                 overlap, tcreate, wrote, consumed, wid, wstart, wend, liveEnd>>

Next ==
  \/ \E r \in Reqs, k \in Keys, sent \in BOOLEAN : Call(r, k, sent)
  \/ \E r \in Reqs : CallNoPeer(r)
  \/ \E r \in Reqs, sent \in BOOLEAN : GotRemaining(r, sent)
  \/ \E r \in Reqs, sent \in BOOLEAN : GotExpiry(r, sent)
  \/ \E r \in Reqs : Forward(r)
  \/ \E r \in Reqs, ok \in BOOLEAN : ServiceDone(r, ok)
  \/ \E res \in {"ok", "err", "other"} : HandleGet(res)
  \/ \E res \in {"ok", "err", "other"} : HandleExpire(res)
  \/ \E res \in {"ok", "err"} : HandleSet(res)
  \/ HandleRemove
  \/ \E k \in Keys : SendRemove(k)
  \/ Tick

Spec == Init /\ [][Next]_vars

\* Scheduling: the runtime polls a call's future again once the reply it
\* awaits is there (the `.await`s of lines 191-258), the store actor keeps
\* taking messages from its mailbox, and the downstream future resolves.
\* Arrivals of requests, Removes and the clock are under no obligation.
Fairness ==
  /\ \A r \in Reqs :
       /\ WF_vars(\E sent \in BOOLEAN : GotRemaining(r, sent))
       /\ WF_vars(\E sent \in BOOLEAN : GotExpiry(r, sent))
       /\ WF_vars(Forward(r))
       /\ WF_vars(\E ok \in BOOLEAN : ServiceDone(r, ok))
  /\ WF_vars(\E res \in {"ok", "err", "other"} : HandleGet(res))
  /\ WF_vars(\E res \in {"ok", "err", "other"} : HandleExpire(res))
  /\ WF_vars(\E res \in {"ok", "err"} : HandleSet(res))
  /\ WF_vars(HandleRemove)

FairSpec == Spec /\ Fairness

\* ======================================================== properties
Done(r) == pc[r] = "done"
Min(a, b) == IF a < b THEN a ELSE b
\* the calls made so far for key k, and a call's position among them
KeyReqs(k) == {r \in Reqs : pc[r] # "idle" /\ key[r] = k}
Rank(r) == Cardinality({q \in KeyReqs(key[r]) : q <= r})
\* no call of the same key was in flight when call r started
FirstInFlight(r) == \A q \in overlap[r] : q > r
\* The calls of key k so far were issued one after another, each completing
\* before the next started, inside one window that started from no entry,
\* with no failure and no Remove.
SeqWindow(k) ==
  /\ faults = 0 /\ removes = 0
  /\ KeyReqs(k) # {}
  /\ \A r \in KeyReqs(k) :
       /\ Done(r) /\ overlap[r] = {}
       /\ liveEnd[r] /\ wend[r] = 1
       /\ Rank(r) = 1 => snap[r] = None /\ ~snapStale[r]

\* C1: N concurrent decisions for one key that start from a live entry with
\* remaining = R: exactly min(N, R) are admitted and the rest are rejected.
C1_NoOverAdmission ==
  \A k \in Keys, R \in 0..MaxMaxRequests :
    LET S == {r \in KeyReqs(k) : snap[r] = R}
    IN (/\ faults = 0 /\ removes = 0
        /\ S # {}
        /\ \A r \in KeyReqs(k) : Done(r)
        /\ \A r \in S : liveEnd[r] /\ wend[r] = wstart[r]
        /\ \A r \in S : overlap[r] \subseteq S)
       => /\ Cardinality({r \in S : outcome[r] = "admitted"})
               = Min(Cardinality(S), R)
          /\ \A r \in S : outcome[r] \in {"admitted", "rejected"}

\* C2: sequential requests of one key inside one window, starting from no
\* entry: each of the first max_requests is admitted and reports a remaining
\* that is 1 less than the previous admitted response's.
C2_SequentialCountdown ==
  \A k \in Keys :
    SeqWindow(k) =>
      \A r \in KeyReqs(k) :
        Rank(r) <= max_requests =>
          /\ outcome[r] = "admitted"
          /\ \A q \in KeyReqs(k) :
               Rank(q) = Rank(r) - 1 =>
                 hdr[r].remaining = hdr[q].remaining - 1

\* C3: sequential requests of one key inside one window, starting from no
\* entry: the (max_requests+1)-th is rejected with remaining 0 and is not
\* forwarded, so at most max_requests are admitted in the window.
C3_RejectAfterQuota ==
  \A k \in Keys :
    SeqWindow(k) =>
      /\ \A r \in KeyReqs(k) :
           Rank(r) = max_requests + 1 =>
             /\ outcome[r] = "rejected"
             /\ hdr[r].remaining = 0
             /\ fwd[r] = 0
      /\ Cardinality({r \in KeyReqs(k) : fwd[r] > 0}) <= max_requests

C5_OwnKeyOnly ==
  \A i \in 1..Len(mailbox) :
    mailbox[i].from \in Reqs => mailbox[i].key = key[mailbox[i].from]
\* handling a message changes the entry of the message's key only
C5_Frame ==
  \A k \in Keys :
    store'[k] # store[k] => mailbox # <<>> /\ Head(mailbox).key = k
\* a first call of a key is admitted with remaining = max_requests
C5_FirstAdmitted ==
  \A r \in Reqs :
    (Done(r) /\ key[r] \in Keys /\ snap[r] = None /\ FirstInFlight(r)
       /\ faults = 0) =>
      outcome[r] = "admitted" /\ hdr[r].remaining = max_requests
\* C5: a call sends messages for its own key only, the store's handling of
\* a message changes the entry of that message's key only, and a first
\* call of a key is admitted with remaining = max_requests whatever the
\* other keys' entries are.
C5_KeyIndependence ==
  [](C5_OwnKeyOnly /\ C5_FirstAdmitted) /\ [][C5_Frame]_vars

\* C5 witness: B's first call is admitted with remaining = max_requests
\* while A's entry is live and exhausted by calls of A.
C5_Witness ==
  \E r \in Reqs :
    /\ key[r] = "B" /\ Done(r) /\ outcome[r] = "admitted"
    /\ hdr[r].remaining = max_requests /\ max_requests > 0
    /\ Live("A") /\ store["A"].remaining = 0
    /\ \E q \in Reqs : q < r /\ key[q] = "A" /\ Done(q)

\* C6: every key has one entry at most, and a stored remaining is within
\* 0..max_requests, in every reachable state.
C6_RemainingInRange ==
  /\ DOMAIN store = Keys
  /\ \A k \in Keys :
       store[k] # NoEntry =>
         store[k].remaining >= 0 /\ store[k].remaining <= max_requests

\* C6 witness: two overlapping calls of one key have both had their
\* decrement handled and the entry stands at 0.
C6_Witness ==
  \E r, q \in Reqs :
    /\ r # q /\ q \in overlap[r] /\ key[r] = key[q]
    /\ pc[r] \in {"srv", "done"} /\ pc[q] \in {"srv", "done"}
    /\ sets[r] = 1 /\ sets[q] = 1 /\ c[r] = 1 /\ c[q] = 1
    /\ store[key[r]].remaining = 0

\* C7: every response a call produces (new key, existing key, rejected)
\* carries limit = max_requests, 0 <= remaining <= max_requests, reset >= 0.
C7_Headers ==
  \A r \in Reqs :
    outcome[r] \in {"admitted", "rejected"} =>
      /\ hdr[r].limit = max_requests
      /\ hdr[r].remaining >= 0 /\ hdr[r].remaining <= max_requests
      /\ hdr[r].reset >= 0

\* C7 witness: the three paths have each produced a response.
C7_Witness ==
  \E r1, r2, r3 \in Reqs :
    /\ outcome[r1] = "admitted" /\ c[r1] = None
    /\ outcome[r2] = "admitted" /\ c[r2] > 0
    /\ outcome[r3] = "rejected"

\* C8: while a key's entry is live and not removed its expiry never changes,
\* under any interleaving, and no call sends the Set that creates an entry
\* (expiry Some) for a key that has a live entry.
C8_FixedWindow ==
  [][/\ \A k \in Keys :
          (Live(k) /\ store'[k] # NoEntry) => store'[k].expiry = store[k].expiry
     /\ \A r \in Reqs :
          (pc[r] = "get" /\ pc'[r] = "create") => ~Live(key[r])]_vars

\* C9: a call with a failed store operation (a failed send, or an error as
\* the result of its Get, Expire or Set) is not forwarded, produces no 429
\* and ends with the error.
C9_StoreFailureIsError ==
  \A r \in Reqs :
    failed[r] =>
      /\ fwd[r] = 0
      /\ outcome[r] \in {"none", "error"}
      /\ pc[r] \notin {"srv", "srv_new"}

\* a call sends one Set at most: exactly one when admitted, none when
\* rejected; a call that found its key exhausted sends none and is not
\* forwarded
C10_Writes ==
  /\ \A r \in Reqs :
       /\ sets[r] <= 1
       /\ outcome[r] = "admitted" => sets[r] = 1 /\ fwd[r] = 1
       /\ outcome[r] = "rejected" => sets[r] = 0 /\ fwd[r] = 0
       /\ c[r] = 0 => sets[r] = 0 /\ fwd[r] = 0
                      /\ outcome[r] \in {"none", "rejected", "error"}
  /\ \A i \in 1..Len(mailbox) :
       mailbox[i].type = "Set" => c[mailbox[i].from] # 0
\* the store's entries change only when a Set or a Remove is handled
C10_Frame ==
  store' # store => mailbox # <<>> /\ Head(mailbox).type \in {"Set", "Remove"}
C11_AfterRemove ==
  \A r \in Reqs :
    (/\ pc[r] # "idle" /\ key[r] \in Keys
     /\ wstart[r] > 0 /\ snap[r] = None /\ ~snapStale[r]
     /\ FirstInFlight(r) /\ faults = 0) =>
      /\ pc[r] \in {"get", "create", "srv_new", "done"}
      /\ pc[r] # "get" => c[r] = None
      /\ pc[r] \in {"srv_new", "done"} =>
           wrote[r] = [remaining |-> max_requests,
                       expiry |-> tcreate[r] + MwInterval]
      /\ Done(r) =>
           /\ outcome[r] = "admitted" /\ fwd[r] = 1
           /\ hdr[r].remaining = max_requests

\* C11 witness: an entry was removed before its expiry and the key's next
\* call was admitted on a fresh entry.
C11_Witness ==
  \E r, q \in Reqs :
    /\ q < r /\ key[r] \in Keys /\ key[q] = key[r]
    /\ wrote[q] # NoEntry /\ tcreate[r] # None /\ tcreate[r] < wrote[q].expiry
    /\ wstart[r] > 0 /\ snap[r] = None /\ ~snapStale[r]
    /\ removes = 1 /\ faults = 0
    /\ Done(r) /\ outcome[r] = "admitted"
    /\ hdr[r].remaining = max_requests /\ max_requests > 0

\* C12: a call whose request has no identifier (no peer address) ends with
\* an error returned to its caller; it sends no store message and is
\* neither forwarded nor answered with 429.
C12_IdentifierUnavailable ==
  \A r \in Reqs :
    key[r] = NoPeer =>
      /\ outcome[r] = "error"
      /\ sets[r] = 0 /\ fwd[r] = 0
      /\ \A i \in 1..Len(mailbox) : mailbox[i].from # r

C14_Reports ==
  /\ \A i \in 1..Len(mailbox) :
       (mailbox[i].type = "Set" /\ mailbox[i].expiry = None) =>
         /\ mailbox[i].value = c[mailbox[i].from] /\ mailbox[i].change = 1
         /\ mailbox[i].value > 0
  /\ \A r \in Reqs :
       (outcome[r] = "admitted" /\ c[r] # None) =>
         c[r] > 0 /\ sets[r] = 1 /\ hdr[r].remaining = c[r]
\* with no other call of the key interleaved, the decrement handled on the
\* live entry leaves remaining = c - 1
C14_Decrement ==
  (/\ mailbox # <<>> /\ mailbox' = Tail(mailbox) /\ faults' = faults
   /\ Head(mailbox).type = "Set" /\ Head(mailbox).expiry = None
   /\ overlap[Head(mailbox).from] = {}
   /\ Live(Head(mailbox).key)) =>
     store'[Head(mailbox).key].remaining = c[Head(mailbox).from] - 1
\* C14: when the Get yields c > 0 the call sends one decrement (value c,
\* change 1), the admitted response reports remaining = c, and with no other
\* call of the key interleaved the stored remaining afterwards is c - 1.
C14_ExistingAdmit == []C14_Reports /\ [][C14_Decrement]_vars

\* C14 witness: a call found c > 0, ran alone, was admitted reporting c and
\* left c - 1 in the store.
C14_Witness ==
  \E r \in Reqs :
    /\ outcome[r] = "admitted" /\ c[r] = 2 /\ hdr[r].remaining = 2
    /\ overlap[r] = {} /\ consumed[r] = "Admitted"
    /\ wrote[r].remaining = 1 /\ store[key[r]].remaining = 1

\* on the existing-entry paths the reset header is the whole seconds of
\* the call's reset, within 0..interval in whole seconds
C15_ResetRange ==
  \A r \in Reqs :
    (outcome[r] \in {"admitted", "rejected"} /\ c[r] # None) =>
      /\ hdr[r].reset = as_secs(reset[r])
      /\ hdr[r].reset >= 0 /\ hdr[r].reset <= as_secs(MwInterval)
\* the reset is the store's time-to-live, or the interval when the store's
\* answer to the Expire is no time-to-live
C15_ResetSource ==
  \A r \in Reqs :
    (pc[r] = "expire" /\ pc'[r] # "expire" /\ reply[r].res # "err") =>
      reset'[r] = IF reply[r].res = "ok" THEN reply[r].val ELSE MwInterval
\* C15: on the existing-entry paths x-ratelimit-reset is the store's
\* time-to-live in whole seconds, so 0 <= reset <= window_duration, and when
\* the store does not answer the Expire with a time-to-live the reset falls
\* back to window_duration.
C15_Reset == []C15_ResetRange /\ [][C15_ResetSource]_vars

\* C16: when the store's TryConsume for a call's decrement finds no live
\* entry (expired or removed since the call's Get) the call creates a fresh
\* entry with remaining = max_requests and expiry = now + interval, and when
\* it finds the entry exhausted the call is rejected and not forwarded.
C16_LostRace ==
  \A r \in Reqs :
    /\ (consumed[r] = "NotFound" /\ faults = 0) =>
         /\ pc[r] \notin {"srv", "done"}
         /\ pc[r] \in {"srv_new", "done"} =>
              wrote[r] = [remaining |-> max_requests,
                          expiry |-> tcreate[r] + MwInterval]
    /\ (consumed[r] = "Exhausted" /\ faults = 0) =>
         /\ fwd[r] = 0
         /\ Done(r) => outcome[r] = "rejected"

\* a call has an outcome exactly when it is over; the outcome is admitted
\* (forwarded once, with headers), rejected (not forwarded, with headers)
\* or an error returned to the caller
C17_Outcomes ==
  \A r \in Reqs :
    /\ Done(r) <=> outcome[r] # "none"
    /\ outcome[r] \in {"none", "admitted", "rejected", "error", "srv_error"}
    /\ outcome[r] = "admitted" => (fwd[r] = 1 /\ hdr[r] # NoHdr)
    /\ outcome[r] = "rejected" => (fwd[r] = 0 /\ hdr[r] # NoHdr)
\* an outcome, once there, stays the call's outcome
C17_Final ==
  \A r \in Reqs :
    outcome[r] # "none" => (outcome'[r] = outcome[r] /\ pc'[r] = "done")
\* every started call is over at some time
C17_Completes == \A r \in Reqs : (pc[r] # "idle") ~> Done(r)
\* the same, a panic counted among the ways a call is over
C17_CompletesOrPanics ==
  /\ [](\A r \in Reqs : Done(r) <=> outcome[r] # "none")
  /\ [][C17_Final]_vars
  /\ C17_Completes
\* C17: under fair scheduling of the store actor and of the downstream
\* service every started call ends in exactly one of admitted (forwarded,
\* with headers), rejected (429 with headers) or failed with an error; none
\* stays pending for ever and none has two outcomes.
C17_DecisionCompletes ==
  []C17_Outcomes /\ [][C17_Final]_vars /\ C17_Completes

\* a step that leaves a live entry of key k in the store leaves its
\* remaining as it was or lowers it by 1
C18_Step ==
  \A k \in Keys :
    (Live(k) /\ store'[k] # NoEntry) =>
      \/ store'[k].remaining = store[k].remaining
      \/ store'[k].remaining = store[k].remaining - 1
\* C18: within one window of a key (no expiry, no Remove) the stored
\* remaining never increases under any interleaving of concurrent calls for
\* the key: every store write lowers it by exactly 1 or leaves it unchanged.
C18_NeverIncreases == [][C18_Step]_vars

\* no message of call r is in the store's mailbox
NoneInMailbox(r) == \A i \in 1..Len(mailbox) : mailbox[i].from # r
\* C19: a request is passed to the downstream service only after the Set
\* that charges it (the decrement, or the create for a new key) has been
\* sent and answered by the store, and at most once; a call sends at most
\* one Set, so a failure of the downstream service is followed by no
\* compensating write.
C19_ForwardAfterWrite ==
  \A r \in Reqs :
    /\ fwd[r] <= 1 /\ sets[r] <= 1
    /\ fwd[r] = 1 => (sets[r] = 1 /\ NoneInMailbox(r))
    /\ outcome[r] \in {"admitted", "srv_error"} => fwd[r] = 1
    /\ Done(r) => NoneInMailbox(r)
\* the downstream service failed after the decrement was applied, and the
\* entry still holds the decremented value
C19_Witness ==
  \E r \in Reqs :
    /\ outcome[r] = "srv_error" /\ sets[r] = 1
    /\ consumed[r] = "Admitted"
    /\ store[key[r]] # NoEntry
    /\ store[key[r]].remaining = c[r] - 1
====
